---- MODULE Spec2Model ----
(***************************************************************************)
(* Model of scripts/proxmox_bridge.py: one invocation of the bridge, from  *)
(* argument parsing to process exit, against a hypervisor whose answers    *)
(* are nondeterministic.  Each action is one step of main() or of a        *)
(* ProxmoxBridge method between two remote calls.                          *)
(***************************************************************************)
EXTENDS Integers, Sequences, FiniteSets, TLC

\* ------------------------------------------------------------ constants

\* argparse choices of --action (main)
Choices ==
  {"create", "start", "stop", "delete", "status", "reboot", "console",
   "snapshot_list", "snapshot_create"}

\* an action name argparse does not know
BogusAction == "frobnicate"

\* the arguments create needs (main, the all([...]) test)
CreateArgs ==
  {"name", "vcpu", "ram", "disk", "os_template", "ip_address", "gateway"}

\* the environment variables main requires
ConfigKeys == {"PROXMOX_HOST", "PROXMOX_USER", "PROXMOX_PASSWORD"}

\* a value that is absent (Python None, a missing key, a missing argument)
NoField == "<absent>"

VmIds == {100, 101}

\* args.vmid when --vmid is not given, and an envelope without a vmid field
NoVmid == 0

\* the exit code of a process that has not exited
NoExit == -1

\* lifecycle states a status query can report
VmStates == {"running", "stopped", "paused"}

\* texts an exception raised by the client can carry (str(e))
ErrTexts == {<<"e1">>, <<"e2">>}

\* exit statuses a finished task can carry
ExitStatuses == {"OK", "ERR"}

\* time.sleep(2) / elapsed += 2 in _wait_for_task
PollInterval == 2

\* _wait_for_task's default timeout
DefaultTimeout == 60

\* create_snapshot's timeout
SnapshotTimeout == 120

\* time.sleep(3) in delete_vm
GracePeriod == 3

\* how many of create's arguments an invocation may leave out
MaxMissing == 1

\* largest timeout _wait_for_task is called with on its own
MaxTimeout == 9

\* how many entries a snapshot listing may hold
MaxSnaps == 3

\* remote calls that change the hypervisor's state
MutatingOps ==
  {"qemu.create", "status.start.post", "status.stop.post",
   "status.shutdown.post", "status.reboot.post", "qemu.delete",
   "snapshot.post", "vncproxy.post"}

VARIABLES
  pc,        \* position of the process
  args,      \* the command line: action, vmid, missing, force, snapshot_name
  env,       \* the configuration keys set in the environment
  stdout,    \* envelopes printed to standard output
  stderr,    \* what argparse wrote to standard error
  exitCode,  \* the process exit code, NoExit while running
  calls,     \* remote calls made, in order (job status polls are counted in polls)
  clock,     \* seconds slept so far
  result,    \* main's result variable
  force,     \* stop_vm's force parameter
  nested,    \* TRUE while stop_vm runs inside delete_vm
  taskStatus,\* what _wait_for_task returned
  timeout,   \* _wait_for_task's timeout parameter
  elapsed,   \* _wait_for_task's elapsed
  polls,     \* job status queries issued by _wait_for_task
  pollFaults,\* kinds of failure the job status queries met
  sawStopped,\* a job status query reported "stopped"
  lastPoll,  \* the answer to the latest job status query
  waitRetPc  \* where _wait_for_task returns to

vars ==
  <<pc, args, env, stdout, stderr, exitCode, calls, clock, result, force,
    nested, taskStatus, timeout, elapsed, polls, pollFaults, sawStopped,
    lastPoll, waitRetPc>>

waitVars ==
  <<taskStatus, timeout, elapsed, polls, pollFaults, sawStopped, lastPoll, waitRetPc>>

\* ------------------------------------------------------------ envelopes

\* an envelope without an error key
NoError == <<>>

Envelope(success, message, error, vmid, payload) ==
  [success |-> success, message |-> message, error |-> error,
   vmid |-> vmid, payload |-> payload]

\* f'{prefix}{str(e)}'
Fmt(prefix, e) == <<prefix>> \o e

\* the except ResourceException branch of a handler
ApiErrorEnvelope(e) ==
  Envelope(FALSE, Fmt("Proxmox API error: ", e), e, NoVmid, NoField)

\* the except Exception branch of a handler
ErrorEnvelope(e) ==
  Envelope(FALSE, Fmt("Error: ", e), e, NoVmid, NoField)

\* the except ResourceException branch of get_vm_status
StatusApiErrorEnvelope(e) ==
  Envelope(FALSE, Fmt("VM not found or API error: ", e), e, NoVmid, NoField)

\* main's envelope for a missing host, user or password
ConfigErrorEnvelope ==
  Envelope(FALSE, <<"Missing Proxmox configuration. Check .env file.">>,
           <<"Missing environment variables">>, NoVmid, NoField)

\* main's except Exception branch
BridgeErrorEnvelope(e) ==
  Envelope(FALSE, Fmt("Bridge error: ", e), e, NoVmid, NoField)

\* a plain envelope of a handler: success flag, message, vmid
Plain(success, text, vmid) ==
  Envelope(success, <<text>>, NoError, vmid, NoField)

\* an envelope without a message key (get_vm_status on success)
NoMessage == <<>>

\* str(KeyError('status'))
KeyErrorText == <<"'status'">>

\* ------------------------------------------------------ remote answers

\* a call that raises: ResourceException ("api") or any other exception ("exc")
Faults == [kind : {"api", "exc"}, val : ErrTexts]

Ok(v) == [kind |-> "ok", val |-> v]

\* answers to status.current.get(): a state, or a response with no status field
StatusAnswers == {Ok(s) : s \in VmStates \cup {NoField}} \cup Faults

\* answers to a call that submits a job
JobAnswers == {Ok("UPID:task")} \cup Faults

\* lastPoll before any job status query
NoPoll == [kind |-> "none", val |-> NoField]

\* the record of one remote call
CallRec(op, by, r) ==
  [op |-> op, arg |-> NoField, by |-> by, t |-> clock, kind |-> r.kind, val |-> r.val]

\* a slip: every exception takes the generic branch
HandlerExceptGeneric(r) == ErrorEnvelope(r.val)

\* a handler's two except branches, by the kind of exception
HandlerExcept(r) ==
  IF r.kind = "api" THEN ApiErrorEnvelope(r.val) ELSE ErrorEnvelope(r.val)

\* ------------------------------------------------------------ Init

ArgSets ==
  [action : Choices \cup {BogusAction},
   vmid : VmIds \cup {NoVmid},
   missing : {m \in SUBSET CreateArgs : Cardinality(m) <= MaxMissing},
   force : BOOLEAN,
   snapshot_name : {NoField, "snap"}]

Init ==
  /\ pc = "parse"
  /\ args \in ArgSets
  /\ env \in SUBSET ConfigKeys
  /\ stdout = <<>>
  /\ stderr = <<>>
  /\ exitCode = NoExit
  /\ calls = <<>>
  /\ clock = 0
  /\ result = NoField
  /\ force = FALSE
  /\ nested = FALSE
  /\ taskStatus = NoField
  /\ timeout = 0
  /\ elapsed = 0
  /\ polls = 0
  /\ pollFaults = {}
  /\ sawStopped = FALSE
  /\ lastPoll = NoPoll
  /\ waitRetPc = NoField

\* ------------------------------------------------------------ main

\* parser.parse_args(): --action must be one of the choices, --vmid is required
ArgsAccepted(a) == a.action \in Choices /\ a.vmid # NoVmid

\* argparse's error exit status
ArgparseExit == 2

ParseArgs ==
  /\ pc = "parse"
  /\ IF ArgsAccepted(args)
       THEN /\ pc' = "config"
            /\ UNCHANGED <<stderr, exitCode>>
       ELSE /\ stderr' = Append(stderr, "usage")
            /\ exitCode' = ArgparseExit
            /\ pc' = "done"
  /\ UNCHANGED <<args, env, stdout, calls, clock, result, force, nested, waitVars>>

\* all([host, user, password])
ConfigComplete(e) == ConfigKeys \subseteq e

\* a slip: the exit code does not follow the success flag
ExitCodeAlwaysZero(r) == 0

\* sys.exit(0 if result.get('success', False) else 1)
ExitCodeFor(r) == IF r.success THEN 0 ELSE 1

CheckConfig ==
  /\ pc = "config"
  /\ IF ConfigComplete(env)
       THEN /\ pc' = "connect"
            /\ UNCHANGED <<stdout, exitCode>>
       ELSE /\ stdout' = Append(stdout, ConfigErrorEnvelope)
            /\ exitCode' = 1
            /\ pc' = "done"
  /\ UNCHANGED <<args, env, stderr, calls, clock, result, force, nested, waitVars>>

\* bridge = ProxmoxBridge(...): ProxmoxAPI(...) connects; a failure is re-raised
\* and caught by main's except Exception
Connect ==
  /\ pc = "connect"
  /\ \E r \in {Ok("session")} \cup Faults :
       /\ calls' = Append(calls, CallRec("connect", "main", r))
       /\ IF r.kind = "ok"
            THEN /\ pc' = "dispatch"
                 /\ UNCHANGED <<stdout, exitCode>>
            ELSE /\ stdout' = Append(stdout, BridgeErrorEnvelope(r.val))
                 /\ exitCode' = 1
                 /\ pc' = "done"
  /\ UNCHANGED <<args, env, stderr, clock, result, force, nested, waitVars>>

\* the if/elif chain of main: the handler's first step, or "emit" with a result
DispatchTarget(a) ==
  CASE a.action = "create" ->
         IF a.missing # {} THEN "emit" ELSE "create_submit"
    [] a.action = "start" -> "start_query"
    [] a.action = "stop" -> "stop_query"
    [] a.action = "reboot" -> "reboot_query"
    [] a.action = "delete" -> "delete_query"
    [] a.action = "status" -> "status_query"
    [] a.action = "console" -> "console_query"
    [] a.action = "snapshot_list" -> "snapshot_list"
    [] a.action = "snapshot_create" ->
         IF a.snapshot_name = NoField THEN "emit" ELSE "snapshot_submit"
    [] OTHER -> "emit"

\* the result main sets itself when it calls no handler
DispatchResult(a) ==
  CASE a.action = "create" ->
         Envelope(FALSE, <<"Missing required arguments for create action">>,
                  NoError, NoVmid, NoField)
    [] a.action = "snapshot_create" ->
         Envelope(FALSE, <<"Missing --snapshot-name for snapshot_create action">>,
                  NoError, NoVmid, NoField)
    [] OTHER ->
         Envelope(FALSE, <<"Unknown action">>, NoError, NoVmid, NoField)

Dispatch ==
  /\ pc = "dispatch"
  /\ pc' = DispatchTarget(args)
  /\ result' = IF DispatchTarget(args) = "emit" THEN DispatchResult(args) ELSE result
  /\ force' = args.force
  /\ UNCHANGED <<args, env, stdout, stderr, exitCode, calls, clock, nested, waitVars>>

\* print(json.dumps(result)); sys.exit(...)
Emit ==
  /\ pc = "emit"
  /\ stdout' = Append(stdout, result)
  /\ exitCode' = ExitCodeFor(result)
  /\ pc' = "done"
  /\ UNCHANGED <<args, env, stderr, calls, clock, result, force, nested, waitVars>>

\* a handler returns `r` to main
Return(r) ==
  /\ result' = r
  /\ pc' = "emit"

\* ------------------------------------------------------------ start_vm

\* a slip: the idempotence test of start_vm compares with the wrong state
AlreadyRunningWrongState(s) == s = "stopped"

\* if status['status'] == 'running' (start_vm)
AlreadyRunning(s) == s = "running"

StartQuery ==
  /\ pc = "start_query"
  /\ \E r \in StatusAnswers :
       /\ calls' = Append(calls, CallRec("status.current.get", "start_vm", r))
       /\ IF r.kind # "ok" THEN Return(HandlerExcept(r))
          ELSE IF r.val = NoField THEN Return(ErrorEnvelope(KeyErrorText))
          ELSE IF AlreadyRunning(r.val)
            THEN Return(Plain(TRUE, "VM is already running", args.vmid))
          ELSE /\ pc' = "start_post"
               /\ UNCHANGED result
  /\ UNCHANGED <<args, env, stdout, stderr, exitCode, clock, force, nested, waitVars>>

\* a slip: a start request that failed is issued once more
StartPostRetry ==
  /\ pc = "start_post"
  /\ \E r \in JobAnswers :
       /\ calls' = Append(calls, CallRec("status.start.post", "start_vm", r))
       /\ IF r.kind # "ok" /\ calls[Len(calls)].op # "status.start.post"
            THEN UNCHANGED <<pc, result>>
          ELSE IF r.kind # "ok" THEN Return(HandlerExcept(r))
          ELSE Return(Envelope(TRUE, <<"VM started successfully">>, NoError,
                               args.vmid, r.val))
  /\ UNCHANGED <<args, env, stdout, stderr, exitCode, clock, force, nested, waitVars>>

StartPost ==
  /\ pc = "start_post"
  /\ \E r \in JobAnswers :
       /\ calls' = Append(calls, CallRec("status.start.post", "start_vm", r))
       /\ IF r.kind # "ok" THEN Return(HandlerExcept(r))
          ELSE Return(Envelope(TRUE, <<"VM started successfully">>, NoError,
                               args.vmid, r.val))
  /\ UNCHANGED <<args, env, stdout, stderr, exitCode, clock, force, nested, waitVars>>

\* ------------------------------------------------------------ stop_vm

\* if status['status'] == 'stopped' (stop_vm)
AlreadyStopped(s) == s = "stopped"

\* a slip: the two branches of the force test are swapped
StopCallSwapped(f) == IF f THEN "status.shutdown.post" ELSE "status.stop.post"

\* if force: ...status.stop.post() else: ...status.shutdown.post()
StopCall(f) == IF f THEN "status.stop.post" ELSE "status.shutdown.post"

\* a slip: delete_vm gives up when the forced stop did not succeed
StopReturnChecked(r) ==
  IF nested /\ r.success
    THEN /\ pc' = "delete_sleep"
         /\ nested' = FALSE
         /\ UNCHANGED result
    ELSE /\ Return(r)
         /\ nested' = FALSE

\* stop_vm returns `r`: to main, or to delete_vm, which drops the result
StopReturn(r) ==
  IF nested
    THEN /\ pc' = "delete_sleep"
         /\ nested' = FALSE
         /\ UNCHANGED result
    ELSE /\ Return(r)
         /\ UNCHANGED nested

StopQuery ==
  /\ pc = "stop_query"
  /\ \E r \in StatusAnswers :
       /\ calls' = Append(calls, CallRec("status.current.get", "stop_vm", r))
       /\ IF r.kind # "ok" THEN StopReturn(HandlerExcept(r))
          ELSE IF r.val = NoField THEN StopReturn(ErrorEnvelope(KeyErrorText))
          ELSE IF AlreadyStopped(r.val)
            THEN StopReturn(Plain(TRUE, "VM is already stopped", args.vmid))
          ELSE /\ pc' = "stop_post"
               /\ UNCHANGED <<result, nested>>
  /\ UNCHANGED <<args, env, stdout, stderr, exitCode, clock, force, waitVars>>

StopPost ==
  /\ pc = "stop_post"
  /\ \E r \in JobAnswers :
       /\ calls' = Append(calls, CallRec(StopCall(force), "stop_vm", r))
       /\ IF r.kind # "ok" THEN StopReturn(HandlerExcept(r))
          ELSE StopReturn(Envelope(TRUE, <<"VM stopped successfully">>, NoError,
                                   args.vmid, r.val))
  /\ UNCHANGED <<args, env, stdout, stderr, exitCode, clock, force, waitVars>>

\* ------------------------------------------------------------ reboot_vm

\* a slip: only a stopped VM is refused, a transient state passes
IsNotStopped(s) == s # "stopped"

\* the negation of: if status['status'] != 'running' (reboot_vm, get_console_url)
IsRunning(s) == s = "running"

RebootQuery ==
  /\ pc = "reboot_query"
  /\ \E r \in StatusAnswers :
       /\ calls' = Append(calls, CallRec("status.current.get", "reboot_vm", r))
       /\ IF r.kind # "ok" THEN Return(HandlerExcept(r))
          ELSE IF r.val = NoField THEN Return(ErrorEnvelope(KeyErrorText))
          ELSE IF ~IsRunning(r.val)
            THEN Return(Plain(FALSE, "VM must be running to reboot", args.vmid))
          ELSE /\ pc' = "reboot_post"
               /\ UNCHANGED result
  /\ UNCHANGED <<args, env, stdout, stderr, exitCode, clock, force, nested, waitVars>>

RebootPost ==
  /\ pc = "reboot_post"
  /\ \E r \in JobAnswers :
       /\ calls' = Append(calls, CallRec("status.reboot.post", "reboot_vm", r))
       /\ IF r.kind # "ok" THEN Return(HandlerExcept(r))
          ELSE Return(Envelope(TRUE, <<"VM rebooted successfully">>, NoError,
                               args.vmid, r.val))
  /\ UNCHANGED <<args, env, stdout, stderr, exitCode, clock, force, nested, waitVars>>

\* ------------------------------------------------------------ delete_vm

\* delete_vm's purge parameter: main calls delete_vm(args.vmid), purge defaults to True
PurgeDefault == TRUE

\* purge=int(purge)
PurgeArg(purge) == IF purge THEN "purge=1" ELSE "purge=0"

\* a slip: the forced stop reuses delete_vm's state instead of asking again
DeleteQueryReuse ==
  /\ pc = "delete_query"
  /\ \E r \in StatusAnswers :
       /\ calls' = Append(calls, CallRec("status.current.get", "delete_vm", r))
       /\ IF r.kind # "ok"
            THEN Return(HandlerExcept(r)) /\ UNCHANGED <<force, nested>>
          ELSE IF r.val = NoField
            THEN Return(ErrorEnvelope(KeyErrorText)) /\ UNCHANGED <<force, nested>>
          ELSE IF r.val = "running"
            THEN /\ pc' = "stop_post"
                 /\ force' = TRUE
                 /\ nested' = TRUE
                 /\ UNCHANGED result
          ELSE /\ pc' = "delete_post"
               /\ UNCHANGED <<result, force, nested>>
  /\ UNCHANGED <<args, env, stdout, stderr, exitCode, clock, waitVars>>

\* if status['status'] == 'running': self.stop_vm(vmid, force=True)
DeleteQuery ==
  /\ pc = "delete_query"
  /\ \E r \in StatusAnswers :
       /\ calls' = Append(calls, CallRec("status.current.get", "delete_vm", r))
       /\ IF r.kind # "ok"
            THEN Return(HandlerExcept(r)) /\ UNCHANGED <<force, nested>>
          ELSE IF r.val = NoField
            THEN Return(ErrorEnvelope(KeyErrorText)) /\ UNCHANGED <<force, nested>>
          ELSE IF r.val = "running"
            THEN /\ pc' = "stop_query"
                 /\ force' = TRUE
                 /\ nested' = TRUE
                 /\ UNCHANGED result
          ELSE /\ pc' = "delete_post"
               /\ UNCHANGED <<result, force, nested>>
  /\ UNCHANGED <<args, env, stdout, stderr, exitCode, clock, waitVars>>

\* a slip: delete_vm does not sleep after the forced stop
DeleteNoSleep ==
  /\ pc = "delete_sleep"
  /\ pc' = "delete_post"
  /\ UNCHANGED <<args, env, stdout, stderr, exitCode, calls, clock, result, force, nested, waitVars>>

\* time.sleep(3)
DeleteSleep ==
  /\ pc = "delete_sleep"
  /\ clock' = clock + GracePeriod
  /\ pc' = "delete_post"
  /\ UNCHANGED <<args, env, stdout, stderr, exitCode, calls, result, force, nested, waitVars>>

\* ...qemu(vmid).delete(purge=int(purge))
DeletePost ==
  /\ pc = "delete_post"
  /\ \E r \in JobAnswers :
       /\ calls' = Append(calls, [CallRec("qemu.delete", "delete_vm", r)
                                    EXCEPT !.arg = PurgeArg(PurgeDefault)])
       /\ IF r.kind # "ok" THEN Return(HandlerExcept(r))
          ELSE Return(Envelope(TRUE, <<"VM deleted successfully">>, NoError,
                               args.vmid, r.val))
  /\ UNCHANGED <<args, env, stdout, stderr, exitCode, clock, force, nested, waitVars>>

\* ------------------------------------------------------------ get_vm_status

\* a slip: the status is read with .get(), so a response without the field
\* passes as a success
StatusResultDefaulting(r, vmid) ==
  IF r.kind = "api" THEN StatusApiErrorEnvelope(r.val)
  ELSE IF r.kind = "exc" THEN ErrorEnvelope(r.val)
  ELSE Envelope(TRUE, NoMessage, NoError, vmid, r.val)

\* what get_vm_status returns for the answer `r` to its state query
StatusResult(r, vmid) ==
  IF r.kind = "api" THEN StatusApiErrorEnvelope(r.val)
  ELSE IF r.kind = "exc" THEN ErrorEnvelope(r.val)
  ELSE IF r.val = NoField THEN ErrorEnvelope(KeyErrorText)
  ELSE Envelope(TRUE, NoMessage, NoError, vmid, r.val)

StatusQuery ==
  /\ pc = "status_query"
  /\ \E r \in StatusAnswers :
       /\ calls' = Append(calls, CallRec("status.current.get", "get_vm_status", r))
       /\ Return(StatusResult(r, args.vmid))
  /\ UNCHANGED <<args, env, stdout, stderr, exitCode, clock, force, nested, waitVars>>

\* ------------------------------------------------------------ get_console_url

ConsoleQuery ==
  /\ pc = "console_query"
  /\ \E r \in StatusAnswers :
       /\ calls' = Append(calls, CallRec("status.current.get", "get_console_url", r))
       /\ IF r.kind # "ok" THEN Return(HandlerExcept(r))
          ELSE IF r.val = NoField THEN Return(ErrorEnvelope(KeyErrorText))
          ELSE IF ~IsRunning(r.val)
            THEN Return(Plain(FALSE, "VM must be running to access console", args.vmid))
          ELSE /\ pc' = "console_ticket"
               /\ UNCHANGED result
  /\ UNCHANGED <<args, env, stdout, stderr, exitCode, clock, force, nested, waitVars>>

\* vncproxy.post(); an empty answer raises Exception("Failed to generate VNC proxy")
ConsoleTicket ==
  /\ pc = "console_ticket"
  /\ \E r \in {Ok("ticket"), Ok(NoField)} \cup Faults :
       /\ calls' = Append(calls, CallRec("vncproxy.post", "get_console_url", r))
       /\ IF r.kind # "ok" THEN Return(HandlerExcept(r))
          ELSE IF r.val = NoField
            THEN Return(ErrorEnvelope(<<"Failed to generate VNC proxy">>))
          ELSE Return(Envelope(TRUE, <<"Console URL generated">>, NoError,
                               args.vmid, r.val))
  /\ UNCHANGED <<args, env, stdout, stderr, exitCode, clock, force, nested, waitVars>>

\* ------------------------------------------------------------ list_snapshots

\* names of the entries of a snapshot listing; NoField is an entry without a name
SnapNames == {"current", "s1", "s2", NoField}

RECURSIVE SeqsUpTo(_, _)
SeqsUpTo(S, n) ==
  IF n = 0 THEN {<<>>}
  ELSE LET shorter == SeqsUpTo(S, n - 1)
       IN shorter \cup {Append(q, x) : q \in shorter, x \in S}

Listings == SeqsUpTo(SnapNames, MaxSnaps)

\* a slip: an entry without a name is dropped too
KeepNamedSnapshot(name) == name \notin {"current", NoField}

\* [s for s in snapshots if s.get('name') != 'current']
KeepSnapshot(name) == name # "current"

FilterSnapshots(l) == SelectSeq(l, KeepSnapshot)

\* f'{len(snapshot_list)}'
CountText(l) == ToString(Len(l))

\* a slip: a listing that failed is asked for once more
ListSnapshotsRetry ==
  /\ pc = "snapshot_list"
  /\ \E r \in {Ok(l) : l \in Listings} \cup Faults :
       /\ calls' = Append(calls, CallRec("snapshot.get", "list_snapshots", r))
       /\ IF r.kind # "ok" /\ calls[Len(calls)].op # "snapshot.get"
            THEN UNCHANGED <<pc, result>>
          ELSE IF r.kind # "ok" THEN Return(HandlerExcept(r))
          ELSE Return(Envelope(TRUE, <<"Found ", CountText(FilterSnapshots(r.val)), " snapshots">>,
                               NoError, args.vmid, FilterSnapshots(r.val)))
  /\ UNCHANGED <<args, env, stdout, stderr, exitCode, clock, force, nested, waitVars>>

ListSnapshots ==
  /\ pc = "snapshot_list"
  /\ \E r \in {Ok(l) : l \in Listings} \cup Faults :
       /\ calls' = Append(calls, CallRec("snapshot.get", "list_snapshots", r))
       /\ IF r.kind # "ok" THEN Return(HandlerExcept(r))
          ELSE Return(Envelope(TRUE, <<"Found ", CountText(FilterSnapshots(r.val)), " snapshots">>,
                               NoError, args.vmid, FilterSnapshots(r.val)))
  /\ UNCHANGED <<args, env, stdout, stderr, exitCode, clock, force, nested, waitVars>>

\* ------------------------------------------------------------ _wait_for_task

\* answers to tasks(task_id).status.get()
PollAnswers ==
  {Ok([status |-> "running", exitstatus |-> NoField])}
  \cup {Ok([status |-> "stopped", exitstatus |-> x]) : x \in ExitStatuses \cup {NoField}}
  \cup Faults

\* a slip: the status field is returned in place of the exit status
ExitStatusOfWrongKey(st) == st.status

\* status.get('exitstatus', 'unknown')
ExitStatusOf(st) == IF st.exitstatus = NoField THEN "unknown" ELSE st.exitstatus

\* a slip: a failed status query leaves _wait_for_task as an exception
WaitOnPollFailureRaise == "raise"

\* the bare except around the status query: pass
WaitOnPollFailure == "pass"

\* _wait_for_task(task_id, timeout) is entered, to return to `ret`
WaitCall(t, ret) ==
  /\ timeout' = t
  /\ elapsed' = 0
  /\ taskStatus' = NoField
  /\ waitRetPc' = ret
  /\ pc' = "wait"

\* an exception leaves _wait_for_task: to the caller's except, or to the top
WaitRaise(r) ==
  IF waitRetPc = "returned"
    THEN pc' = "raised" /\ UNCHANGED result
    ELSE Return(HandlerExcept(r))

\* a slip: only a job that stopped with exit status OK ends the wait
IsTerminalOnlyOk(r) ==
  r.kind = "ok" /\ r.val.status = "stopped" /\ r.val.exitstatus = "OK"

\* if status.get('status') == 'stopped'
IsTerminal(r) == r.kind = "ok" /\ r.val.status = "stopped"

\* one turn of the loop: the status query, then sleep(2) unless it returned
WaitPoll ==
  /\ pc = "wait"
  /\ elapsed < timeout
  /\ \E r \in PollAnswers :
       /\ polls' = polls + 1
       /\ lastPoll' = r
       /\ IF IsTerminal(r)
            THEN /\ taskStatus' = ExitStatusOf(r.val)
                 /\ sawStopped' = TRUE
                 /\ pc' = waitRetPc
                 /\ UNCHANGED <<elapsed, clock, pollFaults, result>>
          ELSE IF r.kind = "ok" \/ WaitOnPollFailure = "pass"
            THEN /\ pollFaults' = IF r.kind = "ok" THEN pollFaults
                                  ELSE pollFaults \cup {r.kind}
                 /\ clock' = clock + PollInterval
                 /\ elapsed' = elapsed + PollInterval
                 /\ UNCHANGED <<pc, taskStatus, sawStopped, result>>
          ELSE /\ WaitRaise(r)
               /\ pollFaults' = pollFaults \cup {r.kind}
               /\ UNCHANGED <<elapsed, clock, taskStatus, sawStopped>>
  /\ UNCHANGED <<args, env, stdout, stderr, exitCode, calls, force, nested, timeout, waitRetPc>>

\* the loop ends: return 'timeout'
WaitExpire ==
  /\ pc = "wait"
  /\ ~(elapsed < timeout)
  /\ taskStatus' = "timeout"
  /\ pc' = waitRetPc
  /\ UNCHANGED <<args, env, stdout, stderr, exitCode, calls, clock, result, force, nested,
                 timeout, elapsed, polls, pollFaults, sawStopped, lastPoll, waitRetPc>>

\* ------------------------------------------------------------ create_vm

\* a slip: any job that finished counts as a success
TaskFinished(status) == status # "timeout"

\* if status == 'OK' (create_vm, create_snapshot)
TaskSucceeded(status) == status = "OK"

\* a slip: the failed job is reported through the API-error branch
TaskFailureAsApiError(what, status) == ApiErrorEnvelope(<<what, status>>)

\* raise Exception(f"... failed with status: {status}"), caught by the
\* handler's except Exception
TaskFailure(what, status) == ErrorEnvelope(<<what, status>>)

CreateSubmit ==
  /\ pc = "create_submit"
  /\ \E r \in JobAnswers :
       /\ calls' = Append(calls, CallRec("qemu.create", "create_vm", r))
       /\ IF r.kind # "ok"
            THEN /\ Return(HandlerExcept(r))
                 /\ UNCHANGED <<taskStatus, timeout, elapsed, waitRetPc>>
            ELSE /\ WaitCall(DefaultTimeout, "create_finish")
                 /\ UNCHANGED result
  /\ UNCHANGED <<args, env, stdout, stderr, exitCode, clock, force, nested,
                 polls, pollFaults, sawStopped, lastPoll>>

\* if status == 'OK': ... else: raise Exception(...), caught by except Exception
CreateFinish ==
  /\ pc = "create_finish"
  /\ IF TaskSucceeded(taskStatus)
       THEN Return(Envelope(TRUE, <<"VM ", "name", " created successfully">>, NoError,
                            args.vmid, "UPID:task"))
       ELSE Return(TaskFailure("VM creation failed with status: ", taskStatus))
  /\ UNCHANGED <<args, env, stdout, stderr, exitCode, calls, clock, force, nested, waitVars>>

\* ------------------------------------------------------------ create_snapshot

SnapshotSubmit ==
  /\ pc = "snapshot_submit"
  /\ \E r \in JobAnswers :
       /\ calls' = Append(calls, CallRec("snapshot.post", "create_snapshot", r))
       /\ IF r.kind # "ok"
            THEN /\ Return(HandlerExcept(r))
                 /\ UNCHANGED <<taskStatus, timeout, elapsed, waitRetPc>>
            ELSE /\ WaitCall(SnapshotTimeout, "snapshot_finish")
                 /\ UNCHANGED result
  /\ UNCHANGED <<args, env, stdout, stderr, exitCode, clock, force, nested,
                 polls, pollFaults, sawStopped, lastPoll>>

SnapshotFinish ==
  /\ pc = "snapshot_finish"
  /\ IF TaskSucceeded(taskStatus)
       THEN Return(Envelope(TRUE, <<"Snapshot ", args.snapshot_name, " created successfully">>,
                            NoError, args.vmid, "UPID:task"))
       ELSE Return(TaskFailure("Snapshot creation failed with status: ", taskStatus))
  /\ UNCHANGED <<args, env, stdout, stderr, exitCode, calls, clock, force, nested, waitVars>>

\* ------------------------------------------------------------ Next

Next ==
  \/ ParseArgs
  \/ CheckConfig
  \/ Connect
  \/ Dispatch
  \/ Emit
  \/ CreateSubmit
  \/ CreateFinish
  \/ StartQuery
  \/ StartPost
  \/ StopQuery
  \/ StopPost
  \/ RebootQuery
  \/ RebootPost
  \/ DeleteQuery
  \/ DeleteSleep
  \/ DeletePost
  \/ StatusQuery
  \/ ConsoleQuery
  \/ ConsoleTicket
  \/ ListSnapshots
  \/ SnapshotSubmit
  \/ SnapshotFinish
  \/ WaitPoll
  \/ WaitExpire

Spec == Init /\ [][Next]_vars

\* the timeouts _wait_for_task is called with on its own: every one up to
\* MaxTimeout, and the two the handlers pass
WaitTimeouts == (0..MaxTimeout) \cup {DefaultTimeout, SnapshotTimeout}

\* _wait_for_task called on its own
WaitInit ==
  /\ pc = "wait"
  /\ waitRetPc = "returned"
  /\ timeout \in WaitTimeouts
  /\ args = [action |-> "create", vmid |-> 100, missing |-> {}, force |-> FALSE,
             snapshot_name |-> NoField]
  /\ env = ConfigKeys
  /\ stdout = <<>>
  /\ stderr = <<>>
  /\ exitCode = NoExit
  /\ calls = <<>>
  /\ clock = 0
  /\ result = NoField
  /\ force = FALSE
  /\ nested = FALSE
  /\ taskStatus = NoField
  /\ elapsed = 0
  /\ polls = 0
  /\ pollFaults = {}
  /\ sawStopped = FALSE
  /\ lastPoll = NoPoll

WaitNext == WaitPoll \/ WaitExpire

WaitSpec == WaitInit /\ [][WaitNext]_vars

\* _wait_for_task on its own, running on: the process is a single thread that
\* takes its next step whenever it has one
WaitFairSpec == WaitSpec /\ WF_vars(WaitNext)

\* ------------------------------------------------------------ properties

Done == pc = "done"

\* positions in calls of the calls of kind `ops`
CallsOf(ops) == {i \in DOMAIN calls : calls[i].op \in ops}

\* no remote call of any kind was made
NoRemoteCall == calls = <<>> /\ polls = 0

\* C1: every invocation ends having written exactly one envelope to standard
\* output and with a process exit code, on every path (the claim as stated;
\* argparse's rejection of the arguments writes none).
C1_OneEnvelopeOnEveryPath ==
  Done => (Len(stdout) = 1 /\ exitCode # NoExit)

\* C2: when an envelope was emitted, the exit code is 0 if and only if the
\* envelope has success = TRUE, and 1 in every other case.
C2_ExitCodeFollowsSuccess ==
  (Done /\ stdout # <<>>) =>
    /\ Len(stdout) = 1
    /\ exitCode \in {0, 1}
    /\ (exitCode = 0) <=> stdout[1].success

\* C2 witness: a handler succeeded and the process exited with 0
C2_Witness ==
  Done /\ Len(stdout) = 1 /\ stdout[1].success /\ exitCode = 0

\* C3: an action name outside the recognised ones ends in one envelope with
\* success = FALSE and message "Unknown action", with no remote call made
\* (the claim as stated; argparse exits before main's else branch).
C3_UnknownActionEnvelope ==
  (Done /\ args.action \notin Choices /\ args.vmid # NoVmid) =>
    /\ Len(stdout) = 1
    /\ stdout[1].success = FALSE
    /\ stdout[1].message = <<"Unknown action">>
    /\ NoRemoteCall

\* C4: create without one of its required arguments, or snapshot_create
\* without a snapshot name, ends in a failed envelope and no remote call is
\* attempted before or after the validation (the claim as stated, for the
\* invocations that reach the validation; the connection is opened first).
C4_ValidationBeforeAnyRemoteCall ==
  ( /\ Done
    /\ ArgsAccepted(args)
    /\ ConfigComplete(env)
    /\ \/ args.action = "create" /\ args.missing # {}
       \/ args.action = "snapshot_create" /\ args.snapshot_name = NoField ) =>
    /\ Len(stdout) = 1
    /\ stdout[1].success = FALSE
    /\ NoRemoteCall

\* C5: with host, user or password absent the invocation emits the
\* configuration-error envelope, exits with 1 and makes no remote call
\* (the claim as stated; it fails when argparse rejects the arguments first).
C5_ConfigErrorEnvelope ==
  (Done /\ ~ConfigComplete(env)) =>
    /\ stdout = <<ConfigErrorEnvelope>>
    /\ exitCode = 1
    /\ NoRemoteCall

\* the method main calls for each action
HandlerOf(a) ==
  CASE a = "create" -> "create_vm"
    [] a = "start" -> "start_vm"
    [] a = "stop" -> "stop_vm"
    [] a = "reboot" -> "reboot_vm"
    [] a = "delete" -> "delete_vm"
    [] a = "status" -> "get_vm_status"
    [] a = "console" -> "get_console_url"
    [] a = "snapshot_list" -> "list_snapshots"
    [] a = "snapshot_create" -> "create_snapshot"
    [] OTHER -> "none"

\* the state query made by method `h` answered with state `s`
Reported(h, s) ==
  \E i \in DOMAIN calls :
    /\ calls[i].op = "status.current.get"
    /\ calls[i].by = h
    /\ calls[i].kind = "ok"
    /\ calls[i].val = s

\* C6: Start on a VM reported running, and Stop (forced or not) on a VM
\* reported stopped, issue no mutating call and end with success = TRUE.
C6_IdempotentStartStop ==
  ( \/ args.action = "start" /\ Reported("start_vm", "running")
    \/ args.action = "stop" /\ Reported("stop_vm", "stopped") ) =>
    /\ CallsOf(MutatingOps) = {}
    /\ polls = 0
    /\ Done => (Len(stdout) = 1 /\ stdout[1].success /\ exitCode = 0)

\* C6 witness: a forced Stop of a stopped VM has ended
C6_Witness ==
  /\ Done
  /\ args.action = "stop"
  /\ args.force
  /\ Reported("stop_vm", "stopped")
  /\ stdout[1].message = <<"VM is already stopped">>

\* the precondition message of each handler that needs a running VM
PreconditionMessage(a) ==
  IF a = "reboot" THEN <<"VM must be running to reboot">>
  ELSE <<"VM must be running to access console">>

\* C7: Reboot and GetConsole on a VM reported in any state but running end
\* with success = FALSE and the precondition message, and make no remote call
\* after the state query.
C7_PreconditionNotRunning ==
  \A s \in VmStates \ {"running"} :
    ( /\ args.action \in {"reboot", "console"}
      /\ Reported(HandlerOf(args.action), s) ) =>
      /\ Len(calls) = 2
      /\ calls[2].op = "status.current.get"
      /\ CallsOf(MutatingOps) = {}
      /\ polls = 0
      /\ Done => /\ Len(stdout) = 1
                 /\ stdout[1].success = FALSE
                 /\ stdout[1].message = PreconditionMessage(args.action)

\* C7 witness: GetConsole on a VM in a transient state has ended
C7_Witness ==
  /\ Done
  /\ args.action = "console"
  /\ Reported("get_console_url", "paused")
  /\ stdout[1].success = FALSE

\* Delete found the VM running
DeleteOnRunning == args.action = "delete" /\ Reported("delete_vm", "running")

\* C8 (as stated): Delete on a VM reported running issues exactly one
\* forced-stop call, waits at least the grace period, then issues exactly one
\* delete call with purge enabled, whatever the hypervisor answers in between.
C8_ExactlyOneForcedStop ==
  (Done /\ DeleteOnRunning) =>
    /\ Cardinality(CallsOf({"status.stop.post"})) = 1
    /\ CallsOf({"status.shutdown.post"}) = {}
    /\ Cardinality(CallsOf({"qemu.delete"})) = 1
    /\ \A i \in CallsOf({"status.stop.post"}), j \in CallsOf({"qemu.delete"}) :
         /\ i < j
         /\ calls[i].t + GracePeriod <= calls[j].t
         /\ calls[j].arg = PurgeArg(TRUE)

\* the state query stop_vm makes inside delete_vm asked for a stop
NestedQueryAsksStop ==
  /\ calls[3].kind = "ok"
  /\ calls[3].val \notin {"stopped", NoField}

\* C8 (amended): Delete on a VM reported running queries the state again
\* inside the nested forced stop; it issues one forced-stop call when that
\* query reports a state other than stopped and none when it reports stopped
\* or fails, never a graceful shutdown; it then waits the grace period and
\* issues exactly one delete call with purge enabled, as its last call.
C8_AtMostOneForcedStop ==
  (Done /\ DeleteOnRunning) =>
    /\ Len(calls) >= 4
    /\ calls[3].op = "status.current.get" /\ calls[3].by = "stop_vm"
    /\ Cardinality(CallsOf({"status.stop.post"})) =
         (IF NestedQueryAsksStop THEN 1 ELSE 0)
    /\ CallsOf({"status.shutdown.post"}) = {}
    /\ CallsOf({"qemu.delete"}) = {Len(calls)}
    /\ calls[Len(calls)].arg = PurgeArg(TRUE)
    /\ \A i \in 1..(Len(calls) - 1) :
         calls[i].t + GracePeriod <= calls[Len(calls)].t

\* C8 witness: Delete of a running VM ended after one forced stop, which the
\* hypervisor refused, and one delete call
C8_Witness ==
  /\ Done
  /\ DeleteOnRunning
  /\ \E i \in CallsOf({"status.stop.post"}) : calls[i].kind = "api"
  /\ CallsOf({"qemu.delete"}) # {}

\* the prefixes that mark a message as an API error
ApiPrefixes == {"Proxmox API error: ", "VM not found or API error: "}

\* envelope `e` reports an API error and carries `text` unchanged
IsApiErrorEnvelope(e, text) ==
  /\ e.success = FALSE
  /\ e.message # <<>>
  /\ e.message[1] \in ApiPrefixes
  /\ Tail(e.message) = text
  /\ e.error = text

\* C9 (as stated): when any remote call made during a handler raises a
\* structured API fault, the envelope has success = FALSE, a message marked as
\* an API error and the error text unchanged.
C9_EveryApiFaultReported ==
  (Done /\ Len(stdout) = 1) =>
    /\ \A i \in DOMAIN calls :
         (calls[i].kind = "api" /\ calls[i].by # "main") =>
           IsApiErrorEnvelope(stdout[1], calls[i].val)
    /\ "api" \in pollFaults =>
         \E text \in ErrTexts : IsApiErrorEnvelope(stdout[1], text)

\* C9 (amended): when a remote call made by the handler itself (not a job
\* status query of _wait_for_task, not a call of the stop_vm nested in
\* delete_vm) raises a structured API fault, the envelope has success = FALSE,
\* a message marked as an API error and the error text unchanged.
C9_DirectApiFaultReported ==
  Done =>
    \A i \in DOMAIN calls :
      (calls[i].kind = "api" /\ calls[i].by = HandlerOf(args.action)) =>
        (Len(stdout) = 1 /\ IsApiErrorEnvelope(stdout[1], calls[i].val))

\* C9 witness: the delete call of Delete raised an API fault
C9_Witness ==
  /\ Done
  /\ args.action = "delete"
  /\ calls # <<>>
  /\ calls[Len(calls)].op = "qemu.delete"
  /\ calls[Len(calls)].kind = "api"

\* C10: _wait_for_task, when no status query reports "stopped" before the
\* timeout, returns 'timeout', and never raises, for every timeout from 0 up.
C10_TimeoutSentinel ==
  /\ pc # "raised"
  /\ (pc = "returned" /\ ~sawStopped) =>
       (taskStatus = "timeout" /\ ~(elapsed < timeout))

\* C10 witness: the waiter returned after polls that failed and polls that
\* reported a running job
C10_Witness ==
  /\ pc = "returned"
  /\ ~sawStopped
  /\ pollFaults = {"api", "exc"}
  /\ polls > Cardinality(pollFaults)

\* the latest job status query answered that the job has stopped
LastPollStopped == lastPoll.kind = "ok" /\ lastPoll.val.status = "stopped"

\* the exit status the latest job status query carried
LastPollExit ==
  IF lastPoll.val.exitstatus = NoField THEN "unknown" ELSE lastPoll.val.exitstatus

\* C11: in _wait_for_task a status query that fails is "not yet terminal":
\* it never ends the wait with an error, and when a later query within the
\* budget reports "stopped" the waiter returns that query's exit status.
C11_FailedPollsNotTerminal ==
  /\ pollFaults # {} => pc \in {"wait", "returned"}
  /\ (pc # "wait" /\ LastPollStopped) =>
       (pc = "returned" /\ taskStatus = LastPollExit /\ taskStatus # "timeout")

\* C11 witness: the waiter returned OK from a query that followed failed ones
C11_Witness ==
  /\ pc = "returned"
  /\ pollFaults # {}
  /\ LastPollStopped
  /\ taskStatus = "OK"

\* main entered the handler: the arguments parsed, the configuration was
\* complete and the connection opened
HandlerEntered ==
  /\ ArgsAccepted(args)
  /\ ConfigComplete(env)
  /\ calls # <<>>
  /\ calls[1].kind = "ok"

\* the job status queries a timeout allows: one per poll interval
PollBudget(t) == (t + PollInterval - 1) \div PollInterval

\* C12: Create with all required fields submits exactly one creation job,
\* polls it until a terminal status or the timeout, and returns success = TRUE
\* with the vmid echoed back if and only if the terminal exit status is OK.
C12_CreateEndToEnd ==
  (Done /\ HandlerEntered /\ args.action = "create" /\ args.missing = {}) =>
    /\ CallsOf({"qemu.create"}) = {2}
    /\ Len(calls) = 2
    /\ Len(stdout) = 1
    /\ IF calls[2].kind = "ok"
         THEN /\ polls >= 1
              /\ LastPollStopped \/ polls = PollBudget(DefaultTimeout)
              /\ stdout[1].success <=>
                   (LastPollStopped /\ lastPoll.val.exitstatus = "OK")
         ELSE polls = 0 /\ ~stdout[1].success
    /\ stdout[1].success => stdout[1].vmid = args.vmid

\* C12 witness: Create succeeded for vmid 101 after a poll that reported a job
\* still running
C12_Witness ==
  /\ Done
  /\ args.action = "create"
  /\ args.vmid = 101
  /\ Len(stdout) = 1
  /\ stdout[1].success
  /\ stdout[1].vmid = 101
  /\ polls >= 2

\* the remote calls that submit a job (Create, Start, Stop, Reboot, Delete,
\* CreateSnapshot)
JobOps == MutatingOps \ {"vncproxy.post"}

\* C13 (as stated): every handler that submits a mutating job waits for it
\* through _wait_for_task before it builds its result: no envelope has
\* success = TRUE for a submitted job whose exit status was not seen to be OK.
C13_SuccessOnlyAfterObservedOK ==
  ( /\ Done
    /\ Len(stdout) = 1
    /\ stdout[1].success
    /\ \E i \in CallsOf(JobOps) : calls[i].kind = "ok" ) =>
    (LastPollStopped /\ lastPoll.val.exitstatus = "OK")

\* Create or CreateSnapshot had its job accepted, and the job was not seen to
\* end with exit status OK
JobNotOk ==
  /\ Done
  /\ HandlerEntered
  /\ args.action \in {"create", "snapshot_create"}
  /\ Len(calls) = 2
  /\ calls[2].op \in {"qemu.create", "snapshot.post"}
  /\ calls[2].kind = "ok"
  /\ ~(LastPollStopped /\ lastPoll.val.exitstatus = "OK")

\* C14: when the job of Create or CreateSnapshot times out or ends with a
\* non-OK exit status, the envelope has success = FALSE and a message that
\* carries the status and does not have an API-error prefix.
C14_TimeoutNotApiError ==
  JobNotOk =>
    /\ Len(stdout) = 1
    /\ stdout[1].success = FALSE
    /\ stdout[1].message[1] = "Error: "
    /\ stdout[1].message[1] \notin ApiPrefixes
    /\ stdout[1].message[Len(stdout[1].message)] =
         (IF LastPollStopped THEN LastPollExit ELSE "timeout")
    /\ stdout[1].error = Tail(stdout[1].message)

\* C14 witness: CreateSnapshot used up its 120-second budget
C14_Witness ==
  /\ JobNotOk
  /\ args.action = "snapshot_create"
  /\ ~LastPollStopped
  /\ polls = PollBudget(SnapshotTimeout)
  /\ stdout[1].message[3] = "timeout"

\* C15: no remote request is retried: each mutating call is issued at most
\* once in an invocation, on every path; the only request issued twice is the
\* state query, once by delete_vm and once by the stop_vm nested in it, and
\* never after it failed.
C15_NoRetry ==
  /\ \A op \in MutatingOps : Cardinality(CallsOf({op})) <= 1
  /\ \A i, j \in DOMAIN calls :
       (i < j /\ calls[i].op = calls[j].op) =>
         /\ calls[i].op = "status.current.get"
         /\ calls[i].kind = "ok"
         /\ calls[i].by = "delete_vm" /\ calls[j].by = "stop_vm"

\* C15 witness: Delete of a running VM ended after the forced stop and the
\* delete call both failed, each issued once
C15_Witness ==
  /\ Done
  /\ DeleteOnRunning
  /\ \E i \in CallsOf({"status.stop.post"}) : calls[i].kind = "exc"
  /\ \E j \in CallsOf({"qemu.delete"}) : calls[j].kind = "exc"
  /\ Len(calls) = 5

\* the state query of GetStatus failed: it raised, or its answer lacks the
\* status field
StatusQueryFailed ==
  /\ HandlerEntered
  /\ args.action = "status"
  /\ Len(calls) = 2
  /\ calls[2].kind # "ok" \/ calls[2].val = NoField

\* C16: for every vmid, GetStatus whose state query fails ends in one envelope
\* with success = FALSE built by the handler itself: no exception reaches
\* main's except branch.
C16_StatusFailureEnvelope ==
  (Done /\ StatusQueryFailed) =>
    /\ Len(stdout) = 1
    /\ stdout[1].success = FALSE
    /\ stdout[1].message[1] \in {"VM not found or API error: ", "Error: "}
    /\ stdout[1].error = Tail(stdout[1].message)
    /\ exitCode = 1

\* C16 witness: GetStatus for vmid 101 got an answer without a status field
C16_Witness ==
  /\ Done
  /\ StatusQueryFailed
  /\ args.vmid = 101
  /\ calls[2].kind = "ok"
  /\ stdout[1].error = KeyErrorText

\* the entries of listing `l` other than the current-state entry, in order
RECURSIVE WithoutCurrent(_)
WithoutCurrent(l) ==
  IF l = <<>> THEN <<>>
  ELSE IF Head(l) = "current" THEN WithoutCurrent(Tail(l))
  ELSE <<Head(l)>> \o WithoutCurrent(Tail(l))

\* ListSnapshots got a listing from the hypervisor
ListingReceived ==
  /\ HandlerEntered
  /\ args.action = "snapshot_list"
  /\ Len(calls) = 2
  /\ calls[2].kind = "ok"

\* C17: ListSnapshots returns exactly the entries of the hypervisor's listing
\* whose name is not "current", in the listing's order, none added, dropped
\* or duplicated.
C17_SnapshotsFiltered ==
  (Done /\ ListingReceived) =>
    /\ Len(stdout) = 1
    /\ stdout[1].success
    /\ stdout[1].payload = WithoutCurrent(calls[2].val)
    /\ \A k \in DOMAIN stdout[1].payload : stdout[1].payload[k] # "current"

\* C17 witness: a listing of two named snapshots around the current-state entry
C17_Witness ==
  /\ Done
  /\ ListingReceived
  /\ calls[2].val = <<"s1", "current", "s2">>
  /\ stdout[1].payload = <<"s1", "s2">>

\* C18: Stop on a VM reported in a state other than stopped issues exactly one
\* mutating call: an immediate stop with the force flag, a graceful shutdown
\* without it.
C18_StopByForceFlag ==
  \A s \in VmStates \ {"stopped"} :
    (Done /\ args.action = "stop" /\ Reported("stop_vm", s)) =>
      /\ Cardinality(CallsOf(MutatingOps)) = 1
      /\ \A i \in CallsOf(MutatingOps) :
           /\ i = Len(calls)
           /\ calls[i].op =
                (IF args.force THEN "status.stop.post" ELSE "status.shutdown.post")

\* C18 witness: a Stop without the force flag ended after a graceful shutdown
C18_Witness ==
  /\ Done
  /\ args.action = "stop"
  /\ ~args.force
  /\ Reported("stop_vm", "running")
  /\ calls[Len(calls)].op = "status.shutdown.post"
  /\ stdout[1].success

\* the states for which method `h` goes on to its mutating call
StatesAllowing(h) ==
  CASE h = "start_vm" -> VmStates \ {"running"}
    [] h = "stop_vm" -> VmStates \ {"stopped"}
    [] OTHER -> {"running"}

\* call `q` is a state query by method `h` that answered with a state of `S`
IsStateQuery(q, h, S) ==
  /\ q \in DOMAIN calls
  /\ calls[q].op = "status.current.get"
  /\ calls[q].by = h
  /\ calls[q].kind = "ok"
  /\ calls[q].val \in S

\* C20: in Start, Stop, Reboot, Delete and GetConsole every mutating call
\* follows a state query of the same invocation that allowed it.  The call of
\* start_vm, stop_vm, reboot_vm and get_console_url comes right after that
\* method's own query, also for the stop_vm nested in delete_vm, which asks
\* again; the delete call follows delete_vm's query, directly when the VM was
\* not running and after the nested stop_vm's query when it was.
C20_FreshStateBeforeMutation ==
  \A i \in CallsOf(MutatingOps) :
    /\ calls[i].by \in {"start_vm", "stop_vm", "reboot_vm", "get_console_url"} =>
         IsStateQuery(i - 1, calls[i].by, StatesAllowing(calls[i].by))
    /\ calls[i].by = "delete_vm" =>
         /\ IsStateQuery(2, "delete_vm", VmStates)
         /\ IF calls[2].val = "running"
              THEN /\ i > 3
                   /\ calls[3].op = "status.current.get"
                   /\ calls[3].by = "stop_vm"
              ELSE i = 3

\* C20 witness: Delete found the VM running, the nested stop_vm asked again,
\* was told "paused" and issued the forced stop
C20_Witness ==
  /\ Done
  /\ DeleteOnRunning
  /\ Reported("stop_vm", "paused")
  /\ CallsOf({"status.stop.post"}) = {4}
  /\ CallsOf({"qemu.delete"}) = {5}

\* the job status queries stay within the budget of the timeout, and a query
\* that reports "stopped" ends the wait
PollsWithinBudget ==
  /\ polls <= PollBudget(timeout)
  /\ timeout = DefaultTimeout => polls <= 30
  /\ timeout = SnapshotTimeout => polls <= 60
  /\ LastPollStopped => pc = "returned"
  /\ pc = "returned" => (LastPollStopped \/ polls = PollBudget(timeout))

\* C19: _wait_for_task always terminates: it issues at most ceil(timeout/2)
\* status queries (30 for 60 seconds, 60 for 120), returns at the first query
\* that reports "stopped", and issues no query after it returned.
C19_WaiterTerminates ==
  /\ []PollsWithinBudget
  /\ [][pc = "returned" => polls' = polls]_vars
  /\ <>(pc = "returned")

\* C19 witness: the waiter returned after the 60 queries of the 120-second
\* budget, the last of which reported "stopped"
C19_Witness ==
  /\ pc = "returned"
  /\ timeout = SnapshotTimeout
  /\ polls = 60
  /\ LastPollStopped

\* C21: in Delete on a VM reported running the outcome of the forced stop is
\* dropped: whatever stop_vm got, the delete call is issued as the last call,
\* exactly the grace period after stop_vm's last call, with no state query
\* after the stop request and no wait for the stop job, and the envelope has
\* success = TRUE exactly when the delete call was accepted.
C21_DeleteIgnoresStopOutcome ==
  (Done /\ DeleteOnRunning) =>
    /\ Len(stdout) = 1
    /\ CallsOf({"qemu.delete"}) = {Len(calls)}
    /\ \A i \in 3..(Len(calls) - 1) : calls[i].by = "stop_vm"
    /\ calls[Len(calls) - 1].t + GracePeriod = calls[Len(calls)].t
    /\ \A i \in CallsOf({"status.stop.post"}) :
         \A j \in (i + 1)..Len(calls) : calls[j].op # "status.current.get"
    /\ polls = 0
    /\ stdout[1].success <=> (calls[Len(calls)].kind = "ok")

\* C21 witness: the VM was reported running twice, the forced stop raised, and
\* the delete call that followed was accepted and reported as a success
C21_Witness ==
  /\ Done
  /\ DeleteOnRunning
  /\ Len(calls) = 5
  /\ Reported("stop_vm", "running")
  /\ calls[4].op = "status.stop.post"
  /\ calls[4].kind = "exc"
  /\ calls[5].kind = "ok"
  /\ stdout[1].success
  /\ exitCode = 0

\* the read each read-only action makes
ReadOpOf(a) == IF a = "status" THEN "status.current.get" ELSE "snapshot.get"

\* C22: GetStatus and ListSnapshots issue no mutating call and wait for no
\* job, and on every path through the handler, error paths included, the
\* handler issues exactly one remote call, a read.
C22_ReadOnlyHandlers ==
  args.action \in {"status", "snapshot_list"} =>
    /\ CallsOf(MutatingOps) = {}
    /\ polls = 0
    /\ \A i \in DOMAIN calls : i > 1 =>
         /\ calls[i].op = ReadOpOf(args.action)
         /\ calls[i].by = HandlerOf(args.action)
    /\ (Done /\ HandlerEntered) => Len(calls) = 2

\* C22 witness: ListSnapshots ended on its API error path after its one read
C22_Witness ==
  /\ Done
  /\ HandlerEntered
  /\ args.action = "snapshot_list"
  /\ Len(calls) = 2
  /\ calls[2].op = "snapshot.get"
  /\ calls[2].kind = "api"
  /\ stdout[1].success = FALSE

====
